---- MODULE Spec2Model ----
(***************************************************************************)
(* Model of the documentation-snapshot build script ("makefile.js").       *)
(*                                                                         *)
(* Two variants of build() are modelled:                                   *)
(*   "detect"  - src/unnamed/part_000:80-120, with the remote manifest     *)
(*               comparison (fetchCurrentMeta + deepEqual gate);           *)
(*   "publish" - src/makefile.js:73-107, which always rebuilds and then    *)
(*               writes the manifest.                                      *)
(* A state is the state of one run of build(): the position of the         *)
(* orchestrator, the position of every concurrent per-source callback,     *)
(* the manifest object under construction and the file system.             *)
(* Callbacks that are still pending when build() rejects stay enabled: the *)
(* host may end the process at once or let them run, and a behaviour in    *)
(* which they take no further step is the former.                          *)
(***************************************************************************)
EXTENDS Integers, Sequences, FiniteSets, TLC

(***************************************************************************)
(* Bounds                                                                  *)
(***************************************************************************)
MaxSources == 2

Branches == {"main", "dev"}
Statuses == {200, 404}

(***************************************************************************)
(* JavaScript values.  Every value is a record of one shape so that any    *)
(* two values can be compared: t is the kind, s the text of a string, es   *)
(* the own enumerable properties in insertion order (Object.keys order).   *)
(***************************************************************************)
JStr(s) == [t |-> "string", s |-> s, es |-> <<>>]
JObj(es) == [t |-> "object", s |-> "", es |-> es]
JArr(es) == [t |-> "array", s |-> "", es |-> es]
JNull == [t |-> "null", s |-> "", es |-> <<>>]
JUndefined == [t |-> "undefined", s |-> "", es |-> <<>>]
Entry(k, v) == [k |-> k, v |-> v]

\* typeof v
TypeOf(v) ==
  CASE v.t = "string" -> "string"
    [] v.t = "undefined" -> "undefined"
    [] OTHER -> "object"

\* Object.keys(v), for a v that is neither null nor undefined
ObjectKeys(v) == [i \in 1..Len(v.es) |-> v.es[i].k]

\* v[k]: the property's value, undefined when v has no own property k
Get(v, k) ==
  IF \E i \in 1..Len(v.es) : v.es[i].k = k
    THEN v.es[CHOOSE i \in 1..Len(v.es) : v.es[i].k = k].v
    ELSE JUndefined

\* v[k] = x: an existing property keeps its place, a new one is appended
Put(v, k, x) ==
  IF \E i \in 1..Len(v.es) : v.es[i].k = k
    THEN [v EXCEPT !.es = [i \in 1..Len(v.es) |->
                            IF v.es[i].k = k THEN Entry(k, x) ELSE v.es[i]]]
    ELSE [v EXCEPT !.es = Append(v.es, Entry(k, x))]

(***************************************************************************)
(* deepEqual(a, b): "true", "false", or "TypeError" when Object.keys is    *)
(* applied to null.                                                        *)
(***************************************************************************)
RECURSIVE deepEqual(_, _)
RECURSIVE deepEqualLoop(_, _, _, _)

deepEqualLoop(a, b, m, i) ==
  IF i > Len(m) THEN "true"
  ELSE LET r == deepEqual(Get(a, m[i]), Get(b, m[i]))
       IN IF r = "true" THEN deepEqualLoop(a, b, m, i + 1) ELSE r

\* deepEqual without the comparison of the numbers of keys
deepEqualAnyLength(a, b) ==
  IF TypeOf(a) # TypeOf(b) THEN "false"
  ELSE IF TypeOf(a) = "object"
    THEN IF a.t = "null" \/ b.t = "null" THEN "TypeError"
         ELSE deepEqualLoop(a, b, ObjectKeys(a), 1)
  ELSE IF a # b THEN "false"
  ELSE "true"

deepEqual(a, b) ==
  IF TypeOf(a) # TypeOf(b) THEN "false"
  ELSE IF TypeOf(a) = "object"
    THEN IF a.t = "null" \/ b.t = "null" THEN "TypeError"
         ELSE IF Len(ObjectKeys(a)) # Len(ObjectKeys(b)) THEN "false"
         ELSE deepEqualLoop(a, b, ObjectKeys(a), 1)
  ELSE IF a # b THEN "false"
  ELSE "true"

(***************************************************************************)
(* JSON.stringify(v, undefined, 2)                                         *)
(***************************************************************************)
RECURSIVE Stringify(_, _)
RECURSIVE StringifyEntries(_, _, _, _)

StringifyEntries(v, ind, i, isArr) ==
  IF i > Len(v.es) THEN ""
  ELSE ind
       \o (IF isArr THEN "" ELSE "\"" \o v.es[i].k \o "\": ")
       \o Stringify(v.es[i].v, ind)
       \o (IF i < Len(v.es) THEN ",\n" ELSE "\n")
       \o StringifyEntries(v, ind, i + 1, isArr)

Stringify(v, ind) ==
  CASE v.t = "string" -> "\"" \o v.s \o "\""
    [] v.t = "null" -> "null"
    [] v.t = "undefined" -> "null"
    [] v.t = "object" ->
         IF Len(v.es) = 0 THEN "{}"
         ELSE "{\n" \o StringifyEntries(v, ind \o "  ", 1, FALSE) \o ind \o "}"
    [] v.t = "array" ->
         IF Len(v.es) = 0 THEN "[]"
         ELSE "[\n" \o StringifyEntries(v, ind \o "  ", 1, TRUE) \o ind \o "]"

JSONstringify(v) == Stringify(v, "")

(***************************************************************************)
(* Configuration                                                           *)
(***************************************************************************)
Source(o, n, b) == [owner |-> o, name |-> n, branch |-> b,
                   entryPoint |-> "src/index.ts"]

\* The sources a configuration draws from: the first one, one that differs
\* from it in the branch only, in the name only, in the owner only, and in
\* all three.
ConfigSource ==
  {Source("o1", "r1", "main"), Source("o1", "r1", "dev"),
   Source("o1", "r2", "main"), Source("o2", "r1", "main"),
   Source("o2", "r2", "dev")}

FirstSource == Source("o1", "r1", "main")

\* The configurations: lists of pairwise distinct sources.  Owners, names
\* and branches are interchangeable, so the first source is fixed.
Configs ==
  {c \in UNION {[1..n -> ConfigSource] : n \in 0..MaxSources} :
     /\ Len(c) > 0 => c[1] = FirstSource
     /\ \A i, j \in 1..Len(c) : i # j => c[i] # c[j]}

\* A workspace subdirectory named after the repository instead of the branch
StPathByName(s) == <<"td", s.name>>

\* join(td, s.branch), join(dd, s.branch), join(sd, `${s.name}.json`)
StPath(s) == <<"td", s.branch>>
SdPath(s) == <<"dist", s.branch>>
ArtifactPath(s) == <<"dist", s.branch, s.name \o ".json">>

NoFile == "<absent>"

VARIABLES
  variant,        \* which build() is running
  config,         \* config.sources
  pc,             \* position of build()
  cause,          \* the operation whose failure rejected build()
  noUpdates,      \* "No updates" was reported
  lookup,         \* per source: state of its fetchSHA call
  sha,            \* per source: the revision its lookup returned
  latest,         \* the object m of fetchLatestMeta / latest of build
  current,        \* the result of fetchCurrentMeta
  curStatus,      \* r.status in fetchCurrentMeta, 0 before the answer
  spc,            \* per source: position of its callback in build
  failure,        \* per source: why its callback rejected
  cloneExit,      \* per source: how its git process ended
  lateClose,      \* the git process of the first source closed after build() rejected
  distExists,     \* dd exists
  sdExists,       \* the existing directories join(dd, branch)
  artifacts,      \* the existing artifact files
  artifactWrites, \* per source: number of artifact writes
  tdExists,       \* the temporary directory td exists
  tdAllocated,    \* mkdtemp has succeeded in this run
  stDirs,         \* the existing directories join(td, branch)
  reserveCalls,   \* sources whose mkdir(st) was issued
  cloneCalls,     \* sources whose git process was spawned
  extractCalls,   \* sources for which generateJSON was called
  metaFile,       \* content of join(dd, meta.file)
  metaFile0,      \* its content when the run started
  metaWrites,     \* number of writeFile calls that touched it
  cmpA, cmpB,     \* the arguments of a call of deepEqual on its own
  cmpResult,      \* and its result, "none" before the call
  remoteMoved     \* a commit was pushed to the sources after the lookups

vars == <<variant, config, pc, cause, noUpdates, lookup, sha, latest,
          current, curStatus, spc, failure, cloneExit, lateClose, distExists, sdExists, artifacts,
          artifactWrites, tdExists, tdAllocated, stDirs, reserveCalls,
          cloneCalls, extractCalls, metaFile, metaFile0, metaWrites,
          cmpA, cmpB, cmpResult, remoteMoved>>

Sources == 1..Len(config)

cmpVars == <<cmpA, cmpB, cmpResult>>
ctlVars == <<variant, config, noUpdates, cmpVars, remoteMoved>>
metaVars == <<lookup, sha, latest, current, curStatus>>
buildVars == <<spc, failure, cloneExit, lateClose, sdExists, artifacts, artifactWrites, stDirs,
               reserveCalls, cloneCalls, extractCalls>>
fsVars == <<distExists, tdExists, tdAllocated, metaFile, metaFile0, metaWrites>>

\* A manifest published by an earlier run
OldManifest ==
  JObj(<<Entry("main", JObj(<<Entry("r1", JStr("0ld"))>>)),
         Entry("legacy", JObj(<<Entry("r0", JStr("0ld"))>>))>>)

\* The state of a run before build() is called
IdleRun ==
  /\ pc = "Idle"
  /\ cause = "none"
  /\ noUpdates = FALSE
  /\ lookup = [i \in Sources |-> "idle"]
  /\ sha = [i \in Sources |-> ""]
  /\ latest = JObj(<<>>)
  /\ current = JUndefined
  /\ curStatus = 0
  /\ spc = [i \in Sources |-> "idle"]
  /\ failure = [i \in Sources |-> "none"]
  /\ cloneExit = [i \in Sources |-> "none"]
  /\ lateClose = FALSE
  /\ remoteMoved = FALSE
  /\ artifacts = {}
  /\ artifactWrites = [i \in Sources |-> 0]
  /\ tdExists = FALSE
  /\ tdAllocated = FALSE
  /\ stDirs = {}
  /\ reserveCalls = {}
  /\ cloneCalls = {}
  /\ extractCalls = {}
  /\ metaFile = IF distExists THEN JSONstringify(OldManifest) ELSE NoFile
  /\ metaFile0 = metaFile
  /\ metaWrites = 0

\* One run of build(): either variant, any configuration, the output root
\* as a fresh checkout or an earlier run left it.
Init ==
  /\ variant \in {"detect", "publish"}
  /\ config \in Configs
  /\ distExists \in BOOLEAN
  /\ sdExists \in (IF distExists THEN SUBSET {<<"dist", b>> : b \in Branches} ELSE {{}})
  /\ IdleRun
  /\ cmpA = JUndefined
  /\ cmpB = JUndefined
  /\ cmpResult = "none"

(***************************************************************************)
(* fetchLatestMeta and fetchSHA                                            *)
(***************************************************************************)
\* The synchronous part of the callbacks of fetchLatestMeta, in the order
\* of c.sources: m[s.branch] is created when it is undefined.
RECURSIVE BranchObjects(_, _, _)
BranchObjects(c, i, m) ==
  IF i > Len(c) THEN m
  ELSE BranchObjects(c, i + 1,
         IF Get(m, c[i].branch) = JUndefined
           THEN Put(m, c[i].branch, JObj(<<>>))
           ELSE m)

\* b[s.name] = <the revision>, b being the object held by m[s.branch]
SetRevision(m, s, rev) ==
  Put(m, s.branch, Put(Get(m, s.branch), s.name, JStr(rev)))

\* build() is invoked: fetchLatestMeta issues one lookup per source.
Build ==
  /\ pc = "Idle"
  /\ pc' = "ResolvingRevisions"
  /\ latest' = BranchObjects(config, 1, JObj(<<>>))
  /\ lookup' = [i \in Sources |-> "pending"]
  /\ UNCHANGED <<ctlVars, cause, sha, current, curStatus, buildVars, fsVars>>

\* j.commit.sha for source s: the head of s.branch at the remote.  Distinct
\* sources have distinct heads, so that a misplaced revision shows.
CommitSha(s) == s.owner \o "/" \o s.name \o "@" \o s.branch

\* The head of s.branch at the remote now: another commit once one was pushed
RemoteRev(s) == IF remoteMoved THEN CommitSha(s) \o "+1" ELSE CommitSha(s)

\* Somebody pushes to the source repositories during the build, while an
\* extractor runs and no git process is left.
RemotePush ==
  /\ pc = "Building"
  /\ \A i \in Sources : spc[i] \in {"extract", "release", "done"}
  /\ \E i \in Sources : spc[i] = "extract"
  /\ ~remoteMoved
  /\ remoteMoved' = TRUE
  /\ UNCHANGED <<variant, config, noUpdates, cmpVars, pc, cause, metaVars,
                 buildVars, fsVars>>

\* fetchSHA that does not throw on a status other than 200
fetchSHANoThrow(i, status) ==
  /\ lookup[i] = "pending"
  /\ IF status = 200
       THEN /\ lookup' = [lookup EXCEPT ![i] = "ok"]
            /\ sha' = [sha EXCEPT ![i] = RemoteRev(config[i])]
            /\ latest' = SetRevision(latest, config[i], RemoteRev(config[i]))
       ELSE /\ lookup' = [lookup EXCEPT ![i] = "failed"]
            /\ UNCHANGED <<sha, latest>>
  /\ UNCHANGED <<pc, cause, ctlVars, current, curStatus, buildVars, fsVars>>

\* The answer to the lookup of source i arrives.
fetchSHA(i, status) ==
  /\ lookup[i] = "pending"
  /\ IF status = 200
       THEN /\ lookup' = [lookup EXCEPT ![i] = "ok"]
            /\ sha' = [sha EXCEPT ![i] = RemoteRev(config[i])]
            /\ latest' = SetRevision(latest, config[i], RemoteRev(config[i]))
            /\ UNCHANGED <<pc, cause>>
       ELSE /\ lookup' = [lookup EXCEPT ![i] = "failed"]
            /\ UNCHANGED <<sha, latest>>
            /\ IF pc = "ResolvingRevisions"
                 THEN pc' = "Aborted" /\ cause' = "fetchSHA"
                 ELSE UNCHANGED <<pc, cause>>
  /\ UNCHANGED <<ctlVars, current, curStatus, buildVars, fsVars>>

\* Promise.all of fetchLatestMeta resolves: every lookup has answered 200.
fetchLatestMeta ==
  /\ pc = "ResolvingRevisions"
  /\ \A i \in Sources : lookup[i] = "ok"
  /\ pc' = IF variant = "detect" THEN "FetchingCurrent" ELSE "PreparingOutputRoot"
  /\ UNCHANGED <<ctlVars, cause, metaVars, buildVars, fsVars>>

(***************************************************************************)
(* fetchCurrentMeta and the change gate                                    *)
(***************************************************************************)
\* v with the insertion order of its keys reversed, at every level
RECURSIVE ReverseKeys(_)
ReverseKeys(v) ==
  [v EXCEPT !.es = [i \in 1..Len(v.es) |->
     Entry(v.es[Len(v.es) + 1 - i].k, ReverseKeys(v.es[Len(v.es) + 1 - i].v))]]

\* v with its first leaf replaced by another revision
RECURSIVE ChangeLeaf(_)
ChangeLeaf(v) ==
  IF v.t = "string" THEN JStr("c3")
  ELSE IF Len(v.es) = 0 THEN v
  ELSE [v EXCEPT !.es[1] = Entry(v.es[1].k, ChangeLeaf(v.es[1].v))]

\* v with the value of its first key replaced by null
NullBranch(v) ==
  IF Len(v.es) = 0 THEN v
  ELSE [v EXCEPT !.es[1] = Entry(v.es[1].k, JNull)]

\* The bodies r.json() may return while l is the resolved manifest: any JSON
\* value, null and a mapping with a null value included
PublishedManifests(l) ==
  {l, ReverseKeys(l), JObj(<<>>), ChangeLeaf(l), JNull, NullBranch(l)}

\* fetchCurrentMeta that parses the body whatever the status
fetchCurrentMetaAnyStatus(status, body) ==
  /\ pc = "FetchingCurrent"
  /\ curStatus' = status
  /\ current' = body
  /\ pc' = "DetectingChanges"
  /\ UNCHANGED <<ctlVars, cause, lookup, sha, latest, buildVars, fsVars>>

fetchCurrentMeta(status, body) ==
  /\ pc = "FetchingCurrent"
  /\ curStatus' = status
  /\ current' = IF status # 200 THEN JObj(<<>>) ELSE body
  /\ pc' = "DetectingChanges"
  /\ UNCHANGED <<ctlVars, cause, lookup, sha, latest, buildVars, fsVars>>

\* The gate without its return: "No updates" is reported and the build goes on
DetectChangesNoReturn ==
  /\ pc = "DetectingChanges"
  /\ LET r == deepEqual(current, latest)
     IN CASE r = "true" ->
               pc' = "PreparingOutputRoot" /\ noUpdates' = TRUE /\ UNCHANGED cause
          [] r = "false" ->
               pc' = "PreparingOutputRoot" /\ UNCHANGED <<noUpdates, cause>>
          [] OTHER ->
               pc' = "Aborted" /\ cause' = "deepEqual" /\ UNCHANGED noUpdates
  /\ UNCHANGED <<variant, config, cmpVars, remoteMoved, metaVars, buildVars, fsVars>>

\* if (deepEqual(current, latest)) { console.info("No updates"); return }
DetectChanges ==
  /\ pc = "DetectingChanges"
  /\ LET r == deepEqual(current, latest)
     IN CASE r = "true" ->
               pc' = "Done" /\ noUpdates' = TRUE /\ UNCHANGED cause
          [] r = "false" ->
               pc' = "PreparingOutputRoot" /\ UNCHANGED <<noUpdates, cause>>
          [] OTHER ->
               pc' = "Aborted" /\ cause' = "deepEqual" /\ UNCHANGED noUpdates
  /\ UNCHANGED <<variant, config, cmpVars, remoteMoved, metaVars, buildVars, fsVars>>

(***************************************************************************)
(* Output root and workspace                                               *)
(***************************************************************************)
\* if (!existsSync(dd)) { await mkdir(dd) }
PrepareOutputRoot(ok) ==
  /\ pc = "PreparingOutputRoot"
  /\ IF distExists
       THEN pc' = "AllocatingWorkspace" /\ UNCHANGED <<cause, distExists>>
       ELSE IF ok
         THEN pc' = "AllocatingWorkspace" /\ distExists' = TRUE /\ UNCHANGED cause
         ELSE pc' = "Aborted" /\ cause' = "mkdir" /\ UNCHANGED distExists
  /\ UNCHANGED <<ctlVars, metaVars, buildVars, tdExists, tdAllocated,
                 metaFile, metaFile0, metaWrites>>

\* const td = await createTempDir(), then the synchronous part of every
\* callback of the fan-out: mkdir(st) is issued for every source.
createTempDir(ok) ==
  /\ pc = "AllocatingWorkspace"
  /\ IF ok
       THEN /\ tdExists' = TRUE
            /\ tdAllocated' = TRUE
            /\ pc' = "Building"
            /\ spc' = [i \in Sources |-> "reserve"]
            /\ reserveCalls' = Sources
            /\ UNCHANGED cause
       ELSE /\ pc' = "Aborted"
            /\ cause' = "mkdtemp"
            /\ UNCHANGED <<tdExists, tdAllocated, spc, reserveCalls>>
  /\ UNCHANGED <<ctlVars, metaVars, failure, cloneExit, lateClose, sdExists, artifacts,
                 artifactWrites, stDirs, cloneCalls, extractCalls,
                 distExists, metaFile, metaFile0, metaWrites>>


(***************************************************************************)
(* The callback of the fan-out of build, one instance per source           *)
(***************************************************************************)
CloneOutcomes == {"exit0", "exit128", "spawnError"}
ExtractOutcomes == {"ok", "projectMissing", "crash"}

\* A rejection of the callback of source i that stops the other callbacks too
RejectCancelling(i, e) ==
  /\ spc' = [j \in Sources |-> IF j = i \/ spc[j] # "done" THEN "failed" ELSE spc[j]]
  /\ failure' = [failure EXCEPT ![i] = e]
  /\ IF pc = "Building"
       THEN pc' = "Aborted" /\ cause' = e
       ELSE UNCHANGED <<pc, cause>>

\* A rejection of the callback of source i that the join does not pass on
RejectSwallowed(i, e) ==
  /\ spc' = [spc EXCEPT ![i] = "failed"]
  /\ failure' = [failure EXCEPT ![i] = e]
  /\ UNCHANGED <<pc, cause>>

\* The callback of source i throws e: Promise.all rejects with the first
\* rejection, and build() rejects with it while it awaits the join.
Reject(i, e) ==
  /\ spc' = [spc EXCEPT ![i] = "failed"]
  /\ failure' = [failure EXCEPT ![i] = e]
  /\ IF pc = "Building"
       THEN pc' = "Aborted" /\ cause' = e
       ELSE UNCHANGED <<pc, cause>>

\* The callback without the await of cloneRepo: git is spawned and the
\* callback goes on to the output directory at once
ReserveNoAwaitClone(i, ok) ==
  /\ spc[i] = "reserve"
  /\ IF StPath(config[i]) \in stDirs
       THEN Reject(i, "EEXIST") /\ UNCHANGED <<stDirs, cloneCalls, extractCalls>>
       ELSE IF ok
         THEN /\ stDirs' = stDirs \cup {StPath(config[i])}
              /\ cloneCalls' = cloneCalls \cup {i}
              /\ IF SdPath(config[i]) \in sdExists
                   THEN /\ spc' = [spc EXCEPT ![i] = "extract"]
                        /\ extractCalls' = extractCalls \cup {i}
                   ELSE /\ spc' = [spc EXCEPT ![i] = "mkdirSd"]
                        /\ UNCHANGED extractCalls
              /\ UNCHANGED <<pc, cause, failure>>
         ELSE Reject(i, "mkdir") /\ UNCHANGED <<stDirs, cloneCalls, extractCalls>>
  /\ UNCHANGED <<ctlVars, metaVars, fsVars, cloneExit, lateClose, sdExists, artifacts,
                 artifactWrites, reserveCalls>>

\* await mkdir(st) settles; on success cloneRepo spawns git.
Reserve(i, ok) ==
  /\ spc[i] = "reserve"
  /\ IF StPath(config[i]) \in stDirs
       THEN Reject(i, "EEXIST") /\ UNCHANGED <<stDirs, cloneCalls>>
       ELSE IF ok
         THEN /\ stDirs' = stDirs \cup {StPath(config[i])}
              /\ spc' = [spc EXCEPT ![i] = "clone"]
              /\ cloneCalls' = cloneCalls \cup {i}
              /\ UNCHANGED <<pc, cause, failure>>
         ELSE Reject(i, "mkdir") /\ UNCHANGED <<stDirs, cloneCalls>>
  /\ UNCHANGED <<ctlVars, metaVars, fsVars, cloneExit, lateClose, sdExists, artifacts,
                 artifactWrites, reserveCalls, extractCalls>>

\* The git process of source i ends.  "close" resolves the promise whatever
\* the exit status, "error" (the process could not be spawned) rejects it.
\* After a resolution: existsSync(sd), then mkdir(sd) or generateJSON.
cloneRepo(i, outcome) ==
  /\ spc[i] = "clone"
  /\ cloneExit' = [cloneExit EXCEPT ![i] = outcome]
  /\ lateClose' = (lateClose \/ (i = 1 /\ pc = "Aborted" /\ outcome # "spawnError"))
  /\ IF outcome = "spawnError"
       THEN Reject(i, "cloneRepo") /\ UNCHANGED extractCalls
       ELSE IF SdPath(config[i]) \in sdExists
         THEN /\ spc' = [spc EXCEPT ![i] = "extract"]
              /\ extractCalls' = extractCalls \cup {i}
              /\ UNCHANGED <<pc, cause, failure>>
         ELSE /\ spc' = [spc EXCEPT ![i] = "mkdirSd"]
              /\ UNCHANGED <<pc, cause, failure, extractCalls>>
  /\ UNCHANGED <<ctlVars, metaVars, fsVars, sdExists, artifacts,
                 artifactWrites, stDirs, reserveCalls, cloneCalls>>

\* await mkdir(sd) settles; on success generateJSON is called.
MkdirSd(i, ok) ==
  /\ spc[i] = "mkdirSd"
  /\ IF SdPath(config[i]) \in sdExists
       THEN Reject(i, "EEXIST") /\ UNCHANGED <<sdExists, extractCalls>>
       ELSE IF ok
         THEN /\ sdExists' = sdExists \cup {SdPath(config[i])}
              /\ spc' = [spc EXCEPT ![i] = "extract"]
              /\ extractCalls' = extractCalls \cup {i}
              /\ UNCHANGED <<pc, cause, failure>>
         ELSE Reject(i, "mkdir") /\ UNCHANGED <<sdExists, extractCalls>>
  /\ UNCHANGED <<ctlVars, metaVars, fsVars, cloneExit, lateClose, artifacts,
                 artifactWrites, stDirs, reserveCalls, cloneCalls>>

\* generateJSON settles: the artifact is written, or the extractor reports
\* no project, or it crashes.  On success rf(st) is issued.
generateJSON(i, outcome) ==
  /\ spc[i] = "extract"
  /\ IF outcome = "ok"
       THEN /\ artifacts' = artifacts \cup {ArtifactPath(config[i])}
            /\ artifactWrites' = [artifactWrites EXCEPT ![i] = @ + 1]
            /\ spc' = [spc EXCEPT ![i] = "release"]
            /\ UNCHANGED <<pc, cause, failure>>
       ELSE Reject(i, "generateJSON") /\ UNCHANGED <<artifacts, artifactWrites>>
  /\ UNCHANGED <<ctlVars, metaVars, fsVars, cloneExit, lateClose, sdExists, stDirs,
                 reserveCalls, cloneCalls, extractCalls>>

\* await rf(st) settles: rm(p, {recursive: true, force: true}).
rf(i, ok) ==
  /\ spc[i] = "release"
  /\ IF ok
       THEN /\ stDirs' = stDirs \ {StPath(config[i])}
            /\ spc' = [spc EXCEPT ![i] = "done"]
            /\ UNCHANGED <<pc, cause, failure>>
       ELSE Reject(i, "rf") /\ UNCHANGED stDirs
  /\ UNCHANGED <<ctlVars, metaVars, fsVars, cloneExit, lateClose, sdExists, artifacts,
                 artifactWrites, reserveCalls, cloneCalls, extractCalls>>

(***************************************************************************)
(* After the fan-out                                                       *)
(***************************************************************************)
\* A join that resolves with the first callback that returns
BuildJoinFirst ==
  /\ pc = "Building"
  /\ \E i \in Sources : spc[i] = "done"
  /\ pc' = "FinalizingManifest"
  /\ UNCHANGED <<ctlVars, cause, metaVars, buildVars, fsVars>>

\* Promise.all of build resolves: every callback has returned.
BuildJoin ==
  /\ pc = "Building"
  /\ \A i \in Sources : spc[i] = "done"
  /\ pc' = "FinalizingManifest"
  /\ UNCHANGED <<ctlVars, cause, metaVars, buildVars, fsVars>>

\* The manifest written before the workspace is destroyed
rmdirAfterWriteMeta(ok) ==
  /\ pc = "FinalizingManifest"
  /\ metaFile' = JSONstringify(latest)
  /\ metaWrites' = metaWrites + 1
  /\ IF ok /\ stDirs = {}
       THEN /\ tdExists' = FALSE
            /\ pc' = "Done"
            /\ UNCHANGED cause
       ELSE /\ pc' = "Aborted"
            /\ cause' = "rmdir"
            /\ UNCHANGED tdExists
  /\ UNCHANGED <<ctlVars, metaVars, buildVars, distExists, tdAllocated, metaFile0>>

\* await rmdir(td), which removes an empty directory only
rmdir(ok) ==
  /\ pc = "FinalizingManifest"
  /\ IF ok /\ stDirs = {}
       THEN /\ tdExists' = FALSE
            /\ pc' = "WritingMeta"
            /\ UNCHANGED cause
       ELSE /\ pc' = "Aborted"
            /\ cause' = "rmdir"
            /\ UNCHANGED tdExists
  /\ UNCHANGED <<ctlVars, metaVars, buildVars, distExists, tdAllocated,
                 metaFile, metaFile0, metaWrites>>

\* The manifest resolved again from the remote when it is written
RECURSIVE Resolve(_, _, _)
Resolve(c, i, m) ==
  IF i > Len(c) THEN m ELSE Resolve(c, i + 1, SetRevision(m, c[i], RemoteRev(c[i])))

writeMetaReresolve(ok, truncated) ==
  /\ pc = "WritingMeta"
  /\ IF ok
       THEN /\ metaFile' = JSONstringify(Resolve(config, 1, latest))
            /\ metaWrites' = metaWrites + 1
            /\ pc' = "Done"
            /\ UNCHANGED cause
       ELSE /\ pc' = "Aborted"
            /\ cause' = "writeMeta"
            /\ IF truncated
                 THEN metaFile' = "" /\ metaWrites' = metaWrites + 1
                 ELSE UNCHANGED <<metaFile, metaWrites>>
  /\ UNCHANGED <<ctlVars, metaVars, buildVars, distExists, tdExists,
                 tdAllocated, metaFile0>>

\* await writeMeta(config, dd, latest).  A writeFile that fails may have
\* truncated the file already.
writeMeta(ok, truncated) ==
  /\ pc = "WritingMeta"
  /\ IF ok
       THEN /\ metaFile' = JSONstringify(latest)
            /\ metaWrites' = metaWrites + 1
            /\ pc' = "Done"
            /\ UNCHANGED cause
       ELSE /\ pc' = "Aborted"
            /\ cause' = "writeMeta"
            /\ IF truncated
                 THEN metaFile' = "" /\ metaWrites' = metaWrites + 1
                 ELSE UNCHANGED <<metaFile, metaWrites>>
  /\ UNCHANGED <<ctlVars, metaVars, buildVars, distExists, tdExists,
                 tdAllocated, metaFile0>>

(***************************************************************************)
(* deepEqual on its own, applied to two manifests                          *)
(***************************************************************************)
CmpRevisions == {"a1", "b2"}
CmpNames == {"r1", "r2"}

\* The lists of distinct keys drawn from K
KeyLists(K) ==
  {ks \in UNION {[1..n -> K] : n \in 0..Cardinality(K)} :
     \A i, j \in 1..Len(ks) : i # j => ks[i] # ks[j]}

\* The objects with keys from K, inserted in any order, and values from V
Objects(K, V) ==
  UNION {{JObj([i \in 1..Len(ks) |-> Entry(ks[i], f[i])]) : f \in [1..Len(ks) -> V]}
           : ks \in KeyLists(K)}

MetaBranch == Objects(CmpNames, {JStr(r) : r \in CmpRevisions})
Meta == Objects(Branches, MetaBranch)

DeepEqualCall ==
  /\ cmpResult = "none"
  /\ cmpA # JUndefined
  /\ cmpResult' = deepEqual(cmpA, cmpB)
  /\ UNCHANGED <<cmpA, cmpB, remoteMoved, variant, config, noUpdates, pc, cause, metaVars,
                 buildVars, fsVars>>

InitEq ==
  /\ variant = "detect"
  /\ config = <<>>
  /\ distExists = FALSE
  /\ sdExists = {}
  /\ IdleRun
  /\ cmpA \in Meta
  /\ cmpB \in Meta
  /\ cmpResult = "none"

SpecEq == InitEq /\ [][DeepEqualCall]_vars

Next ==
  \/ Build
  \/ \E i \in Sources, st \in Statuses : fetchSHA(i, st)
  \/ fetchLatestMeta
  \/ \E st \in Statuses, body \in PublishedManifests(latest) : fetchCurrentMeta(st, body)
  \/ DetectChanges
  \/ \E ok \in BOOLEAN : PrepareOutputRoot(ok)
  \/ \E ok \in BOOLEAN : createTempDir(ok)
  \/ \E i \in Sources, ok \in BOOLEAN : Reserve(i, ok)
  \/ \E i \in Sources, o \in CloneOutcomes : cloneRepo(i, o)
  \/ \E i \in Sources, ok \in BOOLEAN : MkdirSd(i, ok)
  \/ \E i \in Sources, o \in ExtractOutcomes : generateJSON(i, o)
  \/ \E i \in Sources, ok \in BOOLEAN : rf(i, ok)
  \/ BuildJoin
  \/ \E ok \in BOOLEAN : rmdir(ok)
  \/ \E ok \in BOOLEAN, tr \in BOOLEAN : writeMeta(ok, tr)
  \/ RemotePush

Spec == Init /\ [][Next]_vars

\* Every pending lookup, subprocess and filesystem operation eventually
\* settles, with success or failure.
SpecLive == Init /\ [][Next]_vars /\ WF_vars(Next)

TypeOK ==
  /\ pc \in {"Idle", "ResolvingRevisions", "FetchingCurrent", "DetectingChanges",
             "PreparingOutputRoot", "AllocatingWorkspace", "Building",
             "FinalizingManifest", "WritingMeta", "Done", "Aborted"}
  /\ \A i \in Sources :
       /\ lookup[i] \in {"idle", "pending", "ok", "failed"}
       /\ spc[i] \in {"idle", "reserve", "clone", "mkdirSd", "extract",
                      "release", "done", "failed"}
  /\ metaWrites \in 0..1
  /\ lateClose \in BOOLEAN
  /\ remoteMoved \in BOOLEAN

(***************************************************************************)
(* Properties                                                              *)
(***************************************************************************)
KeySet(v) == {v.es[i].k : i \in 1..Len(v.es)}

\* Manifests a and b have the same branches, the same names under every
\* branch and the same revision under every name.
SameManifest(a, b) ==
  /\ a.t = "object" /\ b.t = "object"
  /\ KeySet(a) = KeySet(b)
  /\ \A k \in KeySet(a) :
       /\ Get(a, k).t = "object" /\ Get(b, k).t = "object"
       /\ KeySet(Get(a, k)) = KeySet(Get(b, k))
       /\ \A n \in KeySet(Get(a, k)) : Get(Get(a, k), n).s = Get(Get(b, k), n).s

\* The run has not allocated, reserved, cloned, extracted or written anything.
Untouched ==
  /\ ~tdAllocated /\ ~tdExists /\ stDirs = {}
  /\ reserveCalls = {} /\ cloneCalls = {} /\ extractCalls = {}
  /\ artifacts = {} /\ \A i \in Sources : artifactWrites[i] = 0
  /\ metaWrites = 0 /\ metaFile = metaFile0

\* build() is past the change gate.
GateDecided ==
  /\ variant = "detect"
  /\ curStatus # 0
  /\ pc \notin {"Idle", "ResolvingRevisions", "FetchingCurrent", "DetectingChanges"}

\* C1: in the change-detection variant, when the published manifest equals
\* the resolved one, the run ends in Done as "No updates" and has allocated
\* no workspace, reserved no subdirectory, started no clone, invoked no
\* extractor and written neither an artifact nor the manifest.
C1_NoUpdatesShortCircuit ==
  (GateDecided /\ SameManifest(current, latest))
    => (pc = "Done" /\ noUpdates /\ Untouched)

\* The gate has short-circuited on a published manifest of two sources whose
\* keys are in another order than those of the resolved one.
C1_Witness ==
  /\ GateDecided /\ pc = "Done" /\ noUpdates
  /\ Len(config) = 2 /\ current # latest /\ SameManifest(current, latest)

\* The failures that abort a run before the manifest is written
ListedFailures ==
  {"fetchSHA", "mkdir", "mkdtemp", "EEXIST", "cloneRepo", "generateJSON",
   "rf", "rmdir"}

\* C2: a run aborted by a failed revision lookup, directory creation, clone,
\* extraction, release or workspace destroy has not written the manifest
\* file: its content is the content it had when the run started.
C2_AbortKeepsManifest ==
  (pc = "Aborted" /\ cause \in ListedFailures)
    => (metaFile = metaFile0 /\ metaWrites = 0)

\* The last step before the write failed, with an earlier manifest on disk.
C2_Witness ==
  pc = "Aborted" /\ cause = "rmdir" /\ metaFile0 # NoFile /\ Len(config) = 2

\* C3: at the end of a run that allocated a workspace, Done or Aborted, the
\* workspace root and every subdirectory reserved under it are removed; in
\* particular when a clone or an extraction fails for one source.  Stated
\* for the runs in which every file-system operation that is attempted
\* succeeds, and at the moment every callback has settled.
C3_WorkspaceReclaimed ==
  (/\ tdAllocated
   /\ pc \in {"Done", "Aborted"}
   /\ cause \in {"none", "cloneRepo", "generateJSON"}
   /\ \A i \in Sources :
        /\ spc[i] \in {"done", "failed"}
        /\ failure[i] \in {"none", "cloneRepo", "generateJSON"})
    => (~tdExists /\ stDirs = {})

\* C4: a git process that cannot be spawned or exits with a nonzero status
\* makes cloneRepo reject: the callback of that source stops before the
\* extractor is invoked and the run is Aborted.
C4_CloneFailureStops ==
  \A i \in Sources :
    cloneExit[i] \in {"exit128", "spawnError"}
      => (failure[i] = "cloneRepo" /\ i \notin extractCalls /\ pc = "Aborted")

\* C5: once a revision lookup has answered with a status other than 200,
\* the run is Aborted and has not fetched the current manifest, allocated a
\* workspace, started a clone, written an artifact or written the manifest,
\* whatever the other lookups do.
C5_LookupFailureAborts ==
  (\E i \in Sources : lookup[i] = "failed")
    => /\ pc = "Aborted" /\ cause = "fetchSHA"
       /\ curStatus = 0 /\ current = JUndefined
       /\ Untouched

\* One lookup has failed and another one has answered 200.
C5_Witness ==
  \E i, j \in Sources : lookup[i] = "failed" /\ lookup[j] = "ok"

\* C6: with two sources that differ in (owner, name, branch), whose lookups,
\* clones and extractions succeed, and a changed manifest, the run ends in
\* Done with two artifacts, one per source at {branch}/{name}.json, and one
\* manifest write in which manifest[branch][name] is the source's revision.
C6_TwoSourcesTwoArtifacts ==
  (/\ Len(config) = 2
   /\ pc \in {"Done", "Aborted"}
   /\ ~noUpdates
   /\ cause \in {"none", "EEXIST"}
   /\ \A i \in Sources :
        /\ lookup[i] = "ok"
        /\ cloneExit[i] \in {"none", "exit0"}
        /\ failure[i] \in {"none", "EEXIST"})
    => /\ pc = "Done"
       /\ artifacts = {ArtifactPath(config[i]) : i \in Sources}
       /\ Cardinality(artifacts) = 2
       /\ \A i \in Sources : artifactWrites[i] = 1
       /\ metaWrites = 1
       /\ metaFile = JSONstringify(latest)
       /\ \A i \in Sources :
            Get(Get(latest, config[i].branch), config[i].name) = JStr(sha[i])

\* C7: on two manifests deepEqual returns true exactly when they have the
\* same keys at both levels and the same revision under every key, whatever
\* the insertion order of the keys, and false otherwise.
C7_DeepEqualIsManifestEquality ==
  cmpResult # "none"
    => /\ cmpResult \in {"true", "false"}
       /\ cmpResult = "true" <=> SameManifest(cmpA, cmpB)

\* deepEqual has returned true on two manifests whose keys are in different
\* orders.
C7_Witness ==
  cmpResult = "true" /\ cmpA # cmpB /\ Len(cmpA.es) = 2

\* C8: when the manifest retrieval answers with a status other than 200,
\* fetchCurrentMeta yields the empty object; with at least one source the
\* gate then finds a change, so the run never reports "No updates" and
\* reaches Done only through the workspace allocation and the build.
C8_MissingManifestForcesBuild ==
  (curStatus \notin {0, 200} /\ Len(config) >= 1)
    => /\ current = JObj(<<>>)
       /\ deepEqual(current, latest) = "false"
       /\ ~noUpdates
       /\ cause # "deepEqual"
       /\ pc = "Done" => tdAllocated

\* The retrieval answered 404 and the fan-out of the build is running.
C8_Witness ==
  curStatus = 404 /\ pc = "Building" /\ tdAllocated /\ Len(config) >= 1

\* C9: with pairwise distinct sources no two sources use the same workspace
\* subdirectory or the same artifact path, so that no reserve of a source
\* fails on a directory that another source has created and no two sources
\* write the same artifact file.
C9_DisjointPaths ==
  \A i, j \in Sources :
    i # j =>
      /\ failure[i] # "EEXIST"
      /\ (artifactWrites[i] > 0 /\ artifactWrites[j] > 0)
           => ArtifactPath(config[i]) # ArtifactPath(config[j])

\* C10: the manifest file is written at most once, and only when every
\* callback of the fan-out has returned from its release and the workspace
\* root is destroyed: no write overlaps a clone, an extraction, an artifact
\* write or a release.
C10_ManifestWrittenLast ==
  /\ metaWrites <= 1
  /\ (metaWrites = 1 \/ pc = "WritingMeta")
       => /\ \A i \in Sources : spc[i] = "done"
          /\ tdAllocated /\ ~tdExists /\ stDirs = {}

\* The manifest has been written at the end of a build of two sources.
C10_Witness ==
  metaWrites = 1 /\ pc = "Done" /\ Len(config) = 2 /\ metaFile = JSONstringify(latest)

\* The run is over and every callback has settled, no step having failed
\* except clones and extractions.
RunSettled ==
  /\ pc \in {"Done", "Aborted"}
  /\ cause \in {"none", "cloneRepo", "generateJSON"}
  /\ \A i \in Sources :
       /\ spc[i] \in {"done", "failed"}
       /\ failure[i] \in {"none", "cloneRepo", "generateJSON"}

\* C11: every workspace subdirectory that was reserved is released, and
\* released before the workspace root is destroyed, also in a run in which
\* a callback fails in the middle.
C11_ReserveHasRelease ==
  /\ (tdAllocated /\ ~tdExists) => stDirs = {}
  /\ RunSettled => \A i \in cloneCalls : StPath(config[i]) \notin stDirs

\* C13: within the callback of one source the clone starts after the
\* reserve has completed, the extractor is invoked after the git process
\* has closed, and the release starts after the artifact is written;
\* callbacks of distinct sources are in no order.
C13_PipelineOrder ==
  \A i \in Sources :
    /\ spc[i] \in {"idle", "reserve"} => (i \notin cloneCalls /\ cloneExit[i] = "none")
    /\ i \in cloneCalls => (i \in reserveCalls /\ spc[i] \notin {"idle", "reserve"})
    /\ spc[i] = "clone" => (cloneExit[i] = "none" /\ i \notin extractCalls)
    /\ i \in extractCalls => (i \in cloneCalls /\ cloneExit[i] \in {"exit0", "exit128"})
    /\ spc[i] = "extract" => artifactWrites[i] = 0
    /\ artifactWrites[i] > 0 => i \in extractCalls
    /\ (spc[i] \in {"release", "done"} \/ failure[i] = "rf")
         => (i \in extractCalls /\ artifactWrites[i] = 1)

\* One callback has returned while another still waits for its mkdir(st).
C13_Witness ==
  \E i, j \in Sources :
    /\ spc[i] = "done" /\ artifactWrites[i] = 1
    /\ spc[j] = "reserve"

\* C15: the exists-check followed by mkdir never creates an output
\* directory that exists: no mkdir(sd) is pending on an existing directory
\* and no callback fails with EEXIST on its output directory.
C15_OutputDirsIdempotent ==
  /\ (pc = "AllocatingWorkspace" \/ tdAllocated) => distExists
  /\ \A i \in Sources :
       /\ spc[i] = "mkdirSd" => SdPath(config[i]) \notin sdExists
       /\ i \in cloneCalls => failure[i] # "EEXIST"
       /\ i \in extractCalls => SdPath(config[i]) \in sdExists

\* Two callbacks have found their output directories missing and wait for
\* their mkdir(sd) at the same time.
C15_Witness ==
  \E i, j \in Sources : i # j /\ spc[i] = "mkdirSd" /\ spc[j] = "mkdirSd"

\* C17: once every lookup has answered, the manifest of fetchLatestMeta has
\* manifest[branch][name] equal to the revision resolved for every source,
\* and no other key.
C17_LatestHasEveryRevision ==
  (pc # "Idle" /\ \A i \in Sources : lookup[i] = "ok")
    => /\ \A i \in Sources :
            Get(Get(latest, config[i].branch), config[i].name) = JStr(sha[i])
       /\ KeySet(latest) = {config[i].branch : i \in Sources}
       /\ \A b \in KeySet(latest) :
            KeySet(Get(latest, b)) =
              {config[i].name : i \in {j \in Sources : config[j].branch = b}}

\* C18: whatever JSON value fetchCurrentMeta returns, deepEqual(current,
\* latest) returns a boolean, so the run never aborts in the change gate.
C18_GateNeverRaises ==
  (variant = "detect" /\ curStatus # 0 /\ pc # "DetectingChanges")
    => /\ deepEqual(current, latest) \in {"true", "false"}
       /\ cause # "deepEqual"
       /\ pc = "Aborted" => cause \in ListedFailures \cup {"writeMeta"}

\* Once build() has returned or rejected, its state stays what it is and
\* build() itself allocates no workspace, issues no mkdir(st), and touches
\* neither the output root nor the manifest.
TerminalStable ==
  pc \in {"Done", "Aborted"}
    => UNCHANGED <<pc, cause, noUpdates, current, reserveCalls, fsVars>>

\* C16: when every pending operation eventually settles, build() reaches
\* Done or Aborted, and once it has, build() itself takes no further step.
C16_RunTerminates ==
  /\ <>(pc \in {"Done", "Aborted"})
  /\ [][TerminalStable]_vars

\* build() has rejected on one callback while another is between its steps.
C16_Witness ==
  /\ pc = "Aborted"
  /\ \E i, j \in Sources : spc[i] = "failed" /\ spc[j] \in {"clone", "extract"}

\* C12: the manifest a completed build has written is the text of the
\* mapping resolved by fetchLatestMeta: the configured branches and names
\* and no other key, with the revisions the lookups returned, whatever was
\* published before and whatever was pushed during the build; a run that
\* ends as "No updates" has found that mapping published.
C12_ManifestIsResolved ==
  /\ (pc = "Done" /\ noUpdates) => SameManifest(current, latest)
  /\ (pc = "Done" /\ ~noUpdates)
       => /\ metaWrites = 1
          /\ metaFile = JSONstringify(latest)
          /\ KeySet(latest) = {config[i].branch : i \in Sources}
          /\ \A i \in Sources :
               /\ KeySet(Get(latest, config[i].branch)) =
                    {config[j].name :
                       j \in {k \in Sources : config[k].branch = config[i].branch}}
               /\ Get(Get(latest, config[i].branch), config[i].name) \in
                    {JStr(sha[j]) : j \in Sources}
               /\ sha[i] = CommitSha(config[i])

\* A build of two sources has replaced the manifest of an earlier run after
\* a push to the sources.
C12_Witness ==
  /\ pc = "Done" /\ metaWrites = 1 /\ remoteMoved
  /\ Len(config) = 2
  /\ metaFile0 = JSONstringify(OldManifest) /\ metaFile # metaFile0

\* C14: the first callback that fails during Building rejects build() at
\* once, whatever the other callbacks are doing; no callback is stopped by
\* the failure of another, one whose git process closes after the rejection
\* goes on as before, and an artifact once written stays.
C14_FailFastNoCancel ==
  /\ (\E i \in Sources : spc[i] = "failed")
       => (pc = "Aborted" /\ \E i \in Sources : failure[i] = cause)
  /\ \A i \in Sources :
       /\ spc[i] = "failed" <=> failure[i] # "none"
       /\ artifactWrites[i] > 0 => ArtifactPath(config[i]) \in artifacts
  /\ lateClose
       => (pc = "Aborted" /\ 1 \in cloneCalls /\ cloneExit[1] \in {"exit0", "exit128"})

\* After build() rejected on one source, the git process of another closed,
\* its artifact was written and its workspace subdirectory removed.
C14_Witness ==
  /\ pc = "Aborted" /\ tdExists /\ lateClose
  /\ \E i \in Sources : spc[i] = "failed"
  /\ spc[1] = "done"
  /\ ArtifactPath(config[1]) \in artifacts
  /\ StPath(config[1]) \notin stDirs

====
